---- MODULE Spec2Model ----
(***************************************************************************)
(* Model of src/index.js: the per-connection voice relay.                  *)
(*                                                                         *)
(* Each WebSocket connection owns a closure with `recognizeStream` and     *)
(* `audioInput`; binary frames are written to a lazily opened recognition  *)
(* stream; final transcripts start processTextAndSpeak, an async function  *)
(* with two suspension points (generateContent, synthesizeSpeech).         *)
(*                                                                         *)
(* Node runs every handler to completion, so each handler (and each        *)
(* segment of the async function between two awaits) is one action.        *)
(* Variables that exist in the source keep their names; `streams`,         *)
(* `writes`, `received`, `results`, `invs`, `out` and `teardowns` record   *)
(* what the collaborators (speech stream, Gemini, TTS, socket) have seen.  *)
(***************************************************************************)
EXTENDS Integers, Sequences, FiniteSets, TLC

\* ------------------------------------------------------------- bounds
\* The connections of the model; the event budgets below are totals over all
\* of them. Spec runs one client, SpecTwo runs both.
Conns == {"c1", "c2"}

MaxFrames == 3
MaxResults == 2
MaxTransportErrors == 2
MaxStreamErrors == 1
\* total number of events the environment delivers (frames, results, errors)
MaxEvents == 3
\* the same total when two clients run (SpecTwo)
MaxEventsTwo == 3
\* longest buffer the drain is applied to (SpecDrain)
MaxBuffered == 2

\* ------------------------------------------------------------- values
\* `let recognizeStream = null` (stream ids are 1, 2, ... per connection)
Null == 0

\* JavaScript `undefined` for a transcript that is missing from a result
Undefined == <<"undefined">>

\* strings are sequences of one-character strings
Transcripts == {Undefined, <<>>, <<" ">>, <<"h", "i">>}
Replies == {<<>>, <<" ">>, <<"o", "k", " ">>}
AudioContents == {<<1, 2>>, <<255, 254, 253, 7>>}
GenError == <<"generation failed">>
TtsError == <<"synthesis failed">>

VARIABLES
    sessions,         \* connections whose wss.on('connection') handler has run
    readyState,       \* ws.readyState of each connection
    recognizeStream,  \* the closure variable: Null or the id of a stream
    audioInput,       \* the closure array of buffered chunks
    streams,          \* every stream streamingRecognize returned, per connection
    writes,           \* log of recognizeStream.write calls, per connection
    received,         \* log of 'message' events, per connection
    results,          \* log of stream 'data' events, per connection
    invs,             \* processTextAndSpeak invocations, per connection
    out,              \* log of ws.send calls, per connection
    teardowns,        \* log of ws 'close' / 'error' handler runs, per connection
    streamErrors      \* number of stream 'error' events so far

vars == << sessions, readyState, recognizeStream, audioInput, streams, writes,
           received, results, invs, out, teardowns, streamErrors >>

RECURSIVE SumLen(_, _)
SumLen(f, S) ==
    IF S = {} THEN 0
    ELSE LET c == CHOOSE x \in S : TRUE IN Len(f[c]) + SumLen(f, S \ {c})

TransportErrors(c) ==
    Cardinality({i \in DOMAIN teardowns[c] : teardowns[c][i] = "error"})

RECURSIVE SumErrors(_)
SumErrors(S) ==
    IF S = {} THEN 0
    ELSE LET c == CHOOSE x \in S : TRUE IN TransportErrors(c) + SumErrors(S \ {c})

Events ==
    SumLen(received, Conns) + SumLen(results, Conns) + SumErrors(Conns)
        + streamErrors

\* ------------------------------------------------- the session closure
\* The part of a connection's closure the audio path reads and writes.
Closure(c) ==
    [ recognizeStream |-> recognizeStream[c],
      audioInput      |-> audioInput[c],
      streams         |-> streams[c],
      writes          |-> writes[c] ]

\* a stream reference kept in one module-level variable instead of the
\* connection's closure
SetClosure_Shared(c, s) ==
    /\ recognizeStream' = [d \in Conns |-> s.recognizeStream]
    /\ audioInput' = [audioInput EXCEPT ![c] = s.audioInput]
    /\ streams' = [streams EXCEPT ![c] = s.streams]
    /\ writes' = [writes EXCEPT ![c] = s.writes]

SetClosure(c, s) ==
    /\ recognizeStream' = [recognizeStream EXCEPT ![c] = s.recognizeStream]
    /\ audioInput' = [audioInput EXCEPT ![c] = s.audioInput]
    /\ streams' = [streams EXCEPT ![c] = s.streams]
    /\ writes' = [writes EXCEPT ![c] = s.writes]

\* A stream is readable until it emits 'end' or 'error'; `ends` counts the
\* end() calls made on it.
NewStream == [st |-> "open", ends |-> 0]

\* a stream that is created and not assigned to recognizeStream
StartStream_NotAssigned(s) ==
    [s EXCEPT !.streams = Append(@, NewStream)]

\* recognizeStream = speechClient.streamingRecognize(request).on(...)...
StartStream(s) ==
    [s EXCEPT !.streams = Append(@, NewStream),
              !.recognizeStream = Len(s.streams) + 1]

\* recognizeStream.write(chunk); the log keeps the stream's condition at the
\* time of the call.
StreamWrite(s, chunk) ==
    [s EXCEPT !.writes = Append(@, [ stream |-> s.recognizeStream,
                                     chunk  |-> chunk,
                                     st     |-> s.streams[s.recognizeStream].st,
                                     ends   |-> s.streams[s.recognizeStream].ends ])]

RECURSIVE WriteAll(_, _)
WriteAll(s, chunks) ==
    IF chunks = <<>> THEN s
    ELSE WriteAll(StreamWrite(s, Head(chunks)), Tail(chunks))

\* a drain that does not reset the array
DrainBuffer_KeepsBuffer(s) == WriteAll(s, s.audioInput)

\* audioInput.forEach(chunk => recognizeStream.write(chunk)); audioInput.length = 0
DrainBuffer(s) ==
    [WriteAll(s, s.audioInput) EXCEPT !.audioInput = <<>>]

\* a write() that tests the stream reference the wrong way round
AudioInputStreamWrite_Inverted(s, chunk) ==
    IF s.recognizeStream = Null
    THEN StreamWrite(s, chunk)
    ELSE [s EXCEPT !.audioInput = Append(@, chunk)]

\* audioInputStream's write(chunk, encoding, next); the Writable calls it
\* synchronously because next() is called before write returns.
AudioInputStreamWrite(s, chunk) ==
    IF s.recognizeStream # Null
    THEN StreamWrite(s, chunk)
    ELSE [s EXCEPT !.audioInput = Append(@, chunk)]

\* ws.on('message') for a Buffer
OnBinaryMessage(s, data) ==
    LET s1 == IF s.recognizeStream = Null THEN DrainBuffer(StartStream(s)) ELSE s
    IN  AudioInputStreamWrite(s1, data)

\* ws.on('message')
OnMessage(s, isBuffer, data) ==
    IF isBuffer THEN OnBinaryMessage(s, data) ELSE s

\* ws.on('close'): if (recognizeStream) { recognizeStream.end(); recognizeStream = null; }
OnClose(s) ==
    IF s.recognizeStream # Null
    THEN [s EXCEPT !.streams[s.recognizeStream].ends = @ + 1,
                   !.recognizeStream = Null]
    ELSE s

\* an 'error' cleanup that ends the stream and keeps the reference
OnError_KeepsReference(s) ==
    IF s.recognizeStream # Null
    THEN [s EXCEPT !.streams[s.recognizeStream].ends = @ + 1]
    ELSE s

\* ws.on('error'): the same cleanup
OnError(s) ==
    IF s.recognizeStream # Null
    THEN [s EXCEPT !.streams[s.recognizeStream].ends = @ + 1,
                   !.recognizeStream = Null]
    ELSE s

\* an 'end' handler that leaves the reference in place
OnStreamEnd_KeepsReference(s) == s

\* recognizeStream.on('end', () => { recognizeStream = null; })
OnStreamEnd(s) == [s EXCEPT !.recognizeStream = Null]

\* ------------------------------------------------------- text helpers
RECURSIVE TrimLeft(_)
TrimLeft(t) == IF t # <<>> /\ Head(t) = " " THEN TrimLeft(Tail(t)) ELSE t

RECURSIVE TrimRight(_)
TrimRight(t) ==
    IF t # <<>> /\ t[Len(t)] = " " THEN TrimRight(SubSeq(t, 1, Len(t) - 1)) ELSE t

\* String.prototype.trim()
Trim(t) == TrimRight(TrimLeft(t))

\* JavaScript truthiness of a string-or-undefined value
Truthy(t) == t # Undefined /\ t # <<>>

\* Buffer.prototype.toString('base64')
B64Chars ==
    << "A", "B", "C", "D", "E", "F", "G", "H", "I", "J", "K", "L", "M",
       "N", "O", "P", "Q", "R", "S", "T", "U", "V", "W", "X", "Y", "Z",
       "a", "b", "c", "d", "e", "f", "g", "h", "i", "j", "k", "l", "m",
       "n", "o", "p", "q", "r", "s", "t", "u", "v", "w", "x", "y", "z",
       "0", "1", "2", "3", "4", "5", "6", "7", "8", "9", "+", "/" >>

B64(n) == B64Chars[n + 1]

\* an encoder that leaves out the "=" padding
RECURSIVE ToBase64_NoPadding(_)
ToBase64_NoPadding(b) ==
    IF Len(b) = 0 THEN <<>>
    ELSE IF Len(b) = 1 THEN
        << B64(b[1] \div 4), B64((b[1] % 4) * 16) >>
    ELSE IF Len(b) = 2 THEN
        << B64(b[1] \div 4), B64((b[1] % 4) * 16 + b[2] \div 16),
           B64((b[2] % 16) * 4) >>
    ELSE
        << B64(b[1] \div 4), B64((b[1] % 4) * 16 + b[2] \div 16),
           B64((b[2] % 16) * 4 + b[3] \div 64), B64(b[3] % 64) >>
        \o ToBase64_NoPadding(SubSeq(b, 4, Len(b)))

RECURSIVE ToBase64(_)
ToBase64(b) ==
    IF Len(b) = 0 THEN <<>>
    ELSE IF Len(b) = 1 THEN
        << B64(b[1] \div 4), B64((b[1] % 4) * 16), "=", "=" >>
    ELSE IF Len(b) = 2 THEN
        << B64(b[1] \div 4), B64((b[1] % 4) * 16 + b[2] \div 16),
           B64((b[2] % 16) * 4), "=" >>
    ELSE
        << B64(b[1] \div 4), B64((b[1] % 4) * 16 + b[2] \div 16),
           B64((b[2] % 16) * 4 + b[3] \div 64), B64(b[3] % 64) >>
        \o ToBase64(SubSeq(b, 4, Len(b)))

\* ---------------------------------------------------- processTextAndSpeak
\* One invocation. pc is the await it is suspended at ("gen", "tts") or
\* "done"; the other fields record the calls it made and what they returned.
NewInvocation(text) ==
    [ text         |-> text,
      pc           |-> "start",
      genCalls     |-> 0,
      ttsCalls     |-> 0,
      genOutcome   |-> "none",
      fullText     |-> <<>>,
      ttsOutcome   |-> "none",
      audioContent |-> <<>>,
      error        |-> <<>>,
      endState     |-> "none" ]

\* a send that puts the message in front of those already sent
WsSend_InFront(p, k, rs, type, body) ==
    [p EXCEPT !.out = << [ type  |-> type,
                           body  |-> body,
                           inv   |-> k,
                           state |-> rs ] >> \o @]

\* An invocation `inv` together with the connection's log of ws.send calls.
\* k is the position of the invocation in invs (kept in the log only).
WsSend(p, k, rs, type, body) ==
    [p EXCEPT !.out = Append(@, [ type  |-> type,
                                  body  |-> body,
                                  inv   |-> k,
                                  state |-> rs ])]

\* return / end of the async function
Finish(p, rs) == [p EXCEPT !.inv.pc = "done", !.inv.endState = rs]

\* an empty-text test without the trim
EmptyText_NoTrim(text) == ~Truthy(text)

\* if (!text || text.trim().length === 0) return;
EmptyText(text) == ~Truthy(text) \/ Len(Trim(text)) = 0

\* try { ... await geminiModel.generateContent(text)
PtsStart(p, k, rs) ==
    IF EmptyText(p.inv.text)
    THEN Finish(p, rs)
    ELSE [p EXCEPT !.inv.pc = "gen", !.inv.genCalls = @ + 1]

\* sends without the readyState test
SendAudio_Unguarded(p, k, rs, base64Audio) ==
    WsSend(WsSend(p, k, rs, "audio", base64Audio), k, rs, "audio_complete", <<>>)

\* sends the marker before the payload
SendAudio_MarkerFirst(p, k, rs, base64Audio) ==
    IF rs = "OPEN"
    THEN WsSend(WsSend(p, k, rs, "audio_complete", <<>>), k, rs, "audio", base64Audio)
    ELSE p

\* if (ws.readyState === ws.OPEN) { send audio; send audio_complete }
SendAudio(p, k, rs, base64Audio) ==
    IF rs = "OPEN"
    THEN WsSend(WsSend(p, k, rs, "audio", base64Audio), k, rs, "audio_complete", <<>>)
    ELSE p

\* a catch block that reports a fixed text instead of error.message
PtsCatch_FixedMessage(p, k, rs, message) ==
    LET q == [p EXCEPT !.inv.error = message]
    IN  Finish(IF rs = "OPEN" THEN WsSend(q, k, rs, "error", <<"error">>) ELSE q, rs)

\* a catch block that calls generateContent again
PtsCatch_Retries(p, k, rs, message) ==
    IF p.inv.genCalls < 2
    THEN [p EXCEPT !.inv.pc = "gen", !.inv.genCalls = @ + 1,
                   !.inv.genOutcome = "none", !.inv.ttsOutcome = "none"]
    ELSE Finish([p EXCEPT !.inv.error = message], rs)

\* catch (error) { if (ws.readyState === ws.OPEN) ws.send({type:'error', message}) }
PtsCatch(p, k, rs, message) ==
    LET q == [p EXCEPT !.inv.error = message]
    IN  Finish(IF rs = "OPEN" THEN WsSend(q, k, rs, "error", message) ELSE q, rs)

\* an empty-reply test without the trim
PtsAfterGenerate_NoTrim(p, k, rs, fullText) ==
    LET q == [p EXCEPT !.inv.genOutcome = "ok", !.inv.fullText = fullText]
    IN  IF Len(fullText) = 0
        THEN Finish(q, rs)
        ELSE [q EXCEPT !.inv.pc = "tts", !.inv.ttsCalls = @ + 1]

\* const fullText = result.response.text(); if (!fullText.trim()) return;
\* ... await ttsClient.synthesizeSpeech(ttsRequest)
PtsAfterGenerate(p, k, rs, fullText) ==
    LET q == [p EXCEPT !.inv.genOutcome = "ok", !.inv.fullText = fullText]
    IN  IF Len(Trim(fullText)) = 0
        THEN Finish(q, rs)
        ELSE [q EXCEPT !.inv.pc = "tts", !.inv.ttsCalls = @ + 1]

\* const audioContent = response.audioContent; ... toString('base64'); sends
PtsAfterSynthesize(p, k, rs, audioContent) ==
    LET q == [p EXCEPT !.inv.ttsOutcome = "ok", !.inv.audioContent = audioContent]
    IN  Finish(SendAudio(q, k, rs, ToBase64(audioContent)), rs)

\* a 'data' handler that does not test isFinal
OnStreamData_IgnoresIsFinal(p, k, rs, result) ==
    IF Truthy(result.transcript)
    THEN PtsStart([p EXCEPT !.inv = NewInvocation(result.transcript)], k, rs)
    ELSE p

\* recognizeStream.on('data'): the handler runs processTextAndSpeak up to its
\* first await.
OnStreamData(p, k, rs, result) ==
    IF Truthy(result.transcript) /\ result.isFinal
    THEN PtsStart([p EXCEPT !.inv = NewInvocation(result.transcript)], k, rs)
    ELSE p

\* ------------------------------------------------------------ actions
Init ==
    /\ sessions = {}
    /\ readyState = [c \in Conns |-> "CONNECTING"]
    /\ recognizeStream = [c \in Conns |-> Null]
    /\ audioInput = [c \in Conns |-> <<>>]
    /\ streams = [c \in Conns |-> <<>>]
    /\ writes = [c \in Conns |-> <<>>]
    /\ received = [c \in Conns |-> <<>>]
    /\ results = [c \in Conns |-> <<>>]
    /\ invs = [c \in Conns |-> <<>>]
    /\ out = [c \in Conns |-> <<>>]
    /\ teardowns = [c \in Conns |-> <<>>]
    /\ streamErrors = 0

\* wss.on('connection', (ws) => { let recognizeStream = null; const audioInput = []; ... })
Connect(c) ==
    /\ c \notin sessions
    /\ sessions' = sessions \cup {c}
    /\ readyState' = [readyState EXCEPT ![c] = "OPEN"]
    /\ recognizeStream' = [recognizeStream EXCEPT ![c] = Null]
    /\ audioInput' = [audioInput EXCEPT ![c] = <<>>]
    /\ UNCHANGED << streams, writes, received, results, invs, out, teardowns,
                    streamErrors >>

\* `data instanceof Buffer` for a frame of either kind. The named export
\* `WebSocketServer` that line 5 requires exists from ws 8.1 on, and since
\* ws 8.0 the 'message' listener receives (data, isBinary) with data a Buffer
\* for text frames as well as for binary frames.
InstanceOfBuffer(isBinary) == TRUE

\* A 'message' event: a binary or a text frame. The chunk is tagged with its
\* arrival position. ws emits no 'message' once it has emitted 'close'.
Message(c) ==
    /\ c \in sessions
    /\ readyState[c] # "CLOSED"
    /\ SumLen(received, Conns) < MaxFrames
    /\ Events < MaxEvents
    /\ \E isBinary \in BOOLEAN :
        LET data == Len(received[c]) + 1 IN
        /\ received' = [received EXCEPT ![c] =
                            Append(@, [binary |-> isBinary, chunk |-> data])]
        /\ SetClosure(c, OnMessage(Closure(c), InstanceOfBuffer(isBinary), data))
    /\ UNCHANGED << sessions, readyState, results, invs, out, teardowns,
                    streamErrors >>

\* The socket's 'close' event: the last event of a connection.
TransportClose(c) ==
    /\ c \in sessions
    /\ readyState[c] # "CLOSED"
    /\ readyState' = [readyState EXCEPT ![c] = "CLOSED"]
    /\ teardowns' = [teardowns EXCEPT ![c] = Append(@, "close")]
    /\ SetClosure(c, OnClose(Closure(c)))
    /\ UNCHANGED << sessions, received, results, invs, out, streamErrors >>

\* The socket's 'error' event. Depending on the error the socket is left
\* OPEN or CLOSING; 'close' follows later.
TransportError(c) ==
    /\ c \in sessions
    /\ readyState[c] # "CLOSED"
    /\ SumErrors(Conns) < MaxTransportErrors
    /\ Events < MaxEvents
    /\ \E rs \in {readyState[c], "CLOSING"} :
        readyState' = [readyState EXCEPT ![c] = rs]
    /\ teardowns' = [teardowns EXCEPT ![c] = Append(@, "error")]
    /\ SetClosure(c, OnError(Closure(c)))
    /\ UNCHANGED << sessions, received, results, invs, out, streamErrors >>

\* A stream emits 'data' (also after end() was called on it, until it ends).
StreamData(c, i) ==
    /\ i \in DOMAIN streams[c]
    /\ streams[c][i].st = "open"
    /\ SumLen(results, Conns) < MaxResults
    /\ Events < MaxEvents
    /\ \E transcript \in Transcripts, isFinal \in BOOLEAN :
        LET result == [transcript |-> transcript, isFinal |-> isFinal]
            k == Len(invs[c]) + 1
            p == OnStreamData([inv |-> NewInvocation(<<>>), out |-> out[c]],
                              k, readyState[c], result)
        IN  /\ results' = [results EXCEPT ![c] =
                              Append(@, [ stream     |-> i,
                                          transcript |-> transcript,
                                          isFinal    |-> isFinal ])]
            /\ invs' = [invs EXCEPT ![c] =
                            IF p.inv.pc = "start" THEN @ ELSE Append(@, p.inv)]
            /\ out' = [out EXCEPT ![c] = p.out]
    /\ UNCHANGED << sessions, readyState, recognizeStream, audioInput, streams,
                    writes, received, teardowns, streamErrors >>

\* A stream emits 'error': the handler only logs. An errored stream is
\* destroyed and emits no more 'data'.
StreamError(c, i) ==
    /\ i \in DOMAIN streams[c]
    /\ streams[c][i].st = "open"
    /\ streamErrors < MaxStreamErrors
    /\ Events < MaxEvents
    /\ streamErrors' = streamErrors + 1
    /\ streams' = [streams EXCEPT ![c][i].st = "errored"]
    /\ UNCHANGED << sessions, readyState, recognizeStream, audioInput, writes,
                    received, results, invs, out, teardowns >>

\* A stream emits 'end': on its own, after end() was called on it, or (the
\* stream library decides) after it has emitted 'error'.
StreamEnd(c, i) ==
    /\ i \in DOMAIN streams[c]
    /\ streams[c][i].st \in {"open", "errored"}
    /\ SetClosure(c, OnStreamEnd(
            [Closure(c) EXCEPT !.streams[i].st = "ended"]))
    /\ UNCHANGED << sessions, readyState, received, results, invs, out,
                    teardowns, streamErrors >>

SetInvocation(c, k, p) ==
    /\ invs' = [invs EXCEPT ![c][k] = p.inv]
    /\ out' = [out EXCEPT ![c] = p.out]

\* generateContent settles: with a reply, or by throwing.
GenerateResolves(c, k) ==
    /\ k \in DOMAIN invs[c]
    /\ invs[c][k].pc = "gen"
    /\ LET p == [inv |-> invs[c][k], out |-> out[c]] IN
        \/ \E fullText \in Replies :
            SetInvocation(c, k, PtsAfterGenerate(p, k, readyState[c], fullText))
        \/ SetInvocation(c, k,
             PtsCatch([p EXCEPT !.inv.genOutcome = "throw"], k, readyState[c], GenError))
    /\ UNCHANGED << sessions, readyState, recognizeStream, audioInput, streams,
                    writes, received, results, teardowns, streamErrors >>

\* synthesizeSpeech settles: with audio bytes, or by throwing.
SynthesizeResolves(c, k) ==
    /\ k \in DOMAIN invs[c]
    /\ invs[c][k].pc = "tts"
    /\ LET p == [inv |-> invs[c][k], out |-> out[c]] IN
        \/ \E audioContent \in AudioContents :
            SetInvocation(c, k, PtsAfterSynthesize(p, k, readyState[c], audioContent))
        \/ SetInvocation(c, k,
             PtsCatch([p EXCEPT !.inv.ttsOutcome = "throw"], k, readyState[c], TtsError))
    /\ UNCHANGED << sessions, readyState, recognizeStream, audioInput, streams,
                    writes, received, results, teardowns, streamErrors >>

NextFor(S) ==
    \/ \E c \in S : Connect(c)
    \/ \E c \in S : Message(c)
    \/ \E c \in S : TransportClose(c)
    \/ \E c \in S : TransportError(c)
    \/ \E c \in S : \E i \in DOMAIN streams[c] : StreamData(c, i)
    \/ \E c \in S : \E i \in DOMAIN streams[c] : StreamError(c, i)
    \/ \E c \in S : \E i \in DOMAIN streams[c] : StreamEnd(c, i)
    \/ \E c \in S : \E k \in DOMAIN invs[c] : GenerateResolves(c, k)
    \/ \E c \in S : \E k \in DOMAIN invs[c] : SynthesizeResolves(c, k)

Next == NextFor({"c1"})

\* both clients, within MaxEventsTwo events in all
WithinTwo == Events' <= MaxEventsTwo

NextTwo ==
    \/ \E c \in Conns : Connect(c) /\ WithinTwo
    \/ \E c \in Conns : Message(c) /\ WithinTwo
    \/ \E c \in Conns : TransportClose(c) /\ WithinTwo
    \/ \E c \in Conns : TransportError(c) /\ WithinTwo
    \/ \E c \in Conns : \E i \in DOMAIN streams[c] : StreamData(c, i) /\ WithinTwo
    \/ \E c \in Conns : \E i \in DOMAIN streams[c] : StreamError(c, i) /\ WithinTwo
    \/ \E c \in Conns : \E i \in DOMAIN streams[c] : StreamEnd(c, i) /\ WithinTwo
    \/ \E c \in Conns : \E k \in DOMAIN invs[c] : GenerateResolves(c, k) /\ WithinTwo
    \/ \E c \in Conns : \E k \in DOMAIN invs[c] : SynthesizeResolves(c, k) /\ WithinTwo

\* The message handler applied to a closure that holds buffered chunks and
\* no stream: the drain of lines 163-165 as a function of audioInput. (Under
\* Spec the array is empty whenever the handler runs.)
BufferedChunks == {"x", "y", "z"}

BufferedInputs == UNION { [1..n -> BufferedChunks] : n \in 0..MaxBuffered }

InitDrain ==
    /\ sessions = {"c1"}
    /\ readyState = [c \in Conns |-> IF c = "c1" THEN "OPEN" ELSE "CONNECTING"]
    /\ recognizeStream = [c \in Conns |-> Null]
    /\ \E b \in BufferedInputs :
          audioInput = [c \in Conns |-> IF c = "c1" THEN b ELSE <<>>]
    /\ streams = [c \in Conns |-> <<>>]
    /\ writes = [c \in Conns |-> <<>>]
    /\ received = [c \in Conns |-> <<>>]
    /\ results = [c \in Conns |-> <<>>]
    /\ invs = [c \in Conns |-> <<>>]
    /\ out = [c \in Conns |-> <<>>]
    /\ teardowns = [c \in Conns |-> <<>>]
    /\ streamErrors = 0

NextDrain == \E c \in {"c1"} : Message(c)

SpecDrain == InitDrain /\ [][NextDrain]_vars

\* one client connection
Spec == Init /\ [][Next]_vars

\* two client connections sharing the event budget
SpecTwo == Init /\ [][NextTwo]_vars

\* ========================================================== properties
\* helpers of the properties below
Chunks(w) == [i \in DOMAIN w |-> w[i].chunk]

IsBinary(m) == m.binary

\* the ws.send calls of invocation k of connection c, in call order
MessagesOf(c, k) == SelectSeq(out[c], LAMBDA m : m.inv = k)

Types(ms) == [i \in DOMAIN ms |-> ms[i].type]

\* a string with a character that is not a space
NonBlank(t) == t # Undefined /\ \E i \in DOMAIN t : t[i] # " "

B64Index(ch) ==
    IF \E n \in 0..63 : B64Chars[n + 1] = ch
    THEN CHOOSE n \in 0..63 : B64Chars[n + 1] = ch
    ELSE -1

\* RFC 4648 decoding; <<-1>> for text that is not base64
RECURSIVE FromBase64(_)
FromBase64(s) ==
    IF Len(s) = 0 THEN <<>>
    ELSE IF Len(s) < 4 \/ B64Index(s[1]) < 0 \/ B64Index(s[2]) < 0 THEN <<-1>>
    ELSE LET a == B64Index(s[1])
             b == B64Index(s[2])
             c == B64Index(s[3])
             d == B64Index(s[4])
             rest == SubSeq(s, 5, Len(s))
         IN  IF s[3] = "=" /\ s[4] = "=" /\ rest = <<>> /\ b % 16 = 0
             THEN << a * 4 + b \div 16 >>
             ELSE IF c >= 0 /\ s[4] = "=" /\ rest = <<>> /\ c % 4 = 0
             THEN << a * 4 + b \div 16, (b % 16) * 16 + c \div 4 >>
             ELSE IF c >= 0 /\ d >= 0
             THEN << a * 4 + b \div 16, (b % 16) * 16 + c \div 4, (c % 4) * 64 + d >>
                  \o FromBase64(rest)
             ELSE <<-1>>

\* C1: on every connection the binary frames received are written to the
\* recognition streams exactly once each, in arrival order over the
\* successive streams (none dropped, reordered or written twice); when all
\* the frames received are binary the writes are exactly those frames.
C1_FramesDeliveredInOrder ==
    \A c \in Conns :
        /\ Chunks(SelectSeq(writes[c], LAMBDA w : received[c][w.chunk].binary))
              = Chunks(SelectSeq(received[c], IsBinary))
        /\ (\A i \in DOMAIN received[c] : received[c][i].binary)
              => Chunks(writes[c]) = Chunks(received[c])
        /\ \A i, j \in DOMAIN writes[c] :
              i <= j => writes[c][i].stream <= writes[c][j].stream

\* C1 witness: on an open session three frames were written, over two
\* successive streams (the first stream ended in between).
C1_Witness ==
    \E c \in Conns :
        /\ readyState[c] = "OPEN" /\ teardowns[c] = <<>>
        /\ \A i \in DOMAIN received[c] : received[c][i].binary
        /\ Len(writes[c]) = 3
        /\ writes[c][1].stream # writes[c][3].stream

\* C2: when a binary frame arrives while the session has no current stream
\* (in particular after the current stream emitted 'end', which clears the
\* reference), a new stream is opened and the frame is written to it; and no
\* write ever goes to a stream that has emitted 'end' or had end() called.
C2_RestartAfterEnd ==
    /\ [](\A c \in Conns : \A i \in DOMAIN writes[c] :
            writes[c][i].st # "ended" /\ writes[c][i].ends = 0)
    /\ [][\A c \in Conns :
            /\ \A i \in DOMAIN streams[c] :
                  (recognizeStream[c] = i /\ streams[c][i].st = "open"
                     /\ streams'[c][i].st = "ended")
                  => recognizeStream'[c] = Null
            /\ ( /\ Len(received'[c]) = Len(received[c]) + 1
                 /\ received'[c][Len(received'[c])].binary
                 /\ recognizeStream[c] = Null )
               => /\ Len(streams'[c]) = Len(streams[c]) + 1
                  /\ recognizeStream'[c] = Len(streams'[c])
                  /\ Len(writes'[c]) = Len(writes[c]) + 1
                  /\ writes'[c][Len(writes'[c])].stream = Len(streams'[c])
                  /\ writes'[c][Len(writes'[c])].chunk
                        = received'[c][Len(received'[c])].chunk
       ]_vars

\* C2 witness: the first stream emitted 'end' on an open session and a later
\* frame was written to a second stream.
C2_Witness ==
    \E c \in Conns :
        /\ teardowns[c] = <<>>
        /\ Len(streams[c]) = 2 /\ streams[c][1].st = "ended"
        /\ streams[c][1].ends = 0
        /\ \E i \in DOMAIN writes[c] : writes[c][i].stream = 2

\* C3: after a recognition stream emitted 'error' no frame is written to it
\* (the next frame opens a fresh stream instead).
C3_NoWriteToErroredStream ==
    \A c \in Conns : \A i \in DOMAIN writes[c] : writes[c][i].st # "errored"

\* C4: an invocation with a non-blank transcript whose generation returned a
\* non-blank reply, whose synthesis succeeded and which completed on an OPEN
\* transport sent exactly two messages: 'audio' carrying the base64 text of
\* the synthesized bytes, then 'audio_complete' (and no 'error').
C4_SuccessSendsAudioThenComplete ==
    \A c \in Conns : \A k \in DOMAIN invs[c] :
        LET inv == invs[c][k]
            ms == MessagesOf(c, k)
        IN  ( /\ inv.pc = "done"
              /\ NonBlank(inv.text)
              /\ inv.genOutcome = "ok" /\ NonBlank(inv.fullText)
              /\ inv.ttsOutcome = "ok"
              /\ inv.endState = "OPEN" )
            => /\ Types(ms) = << "audio", "audio_complete" >>
               /\ FromBase64(ms[1].body) = inv.audioContent
               /\ (inv.audioContent = << 1, 2 >> => ms[1].body = << "A", "Q", "I", "=" >>)

\* C4 witness: a successful invocation has sent its two messages.
C4_Witness ==
    \E c \in Conns : \E k \in DOMAIN invs[c] :
        /\ invs[c][k].pc = "done" /\ invs[c][k].ttsOutcome = "ok"
        /\ invs[c][k].endState = "OPEN"
        /\ invs[c][k].audioContent = << 1, 2 >>
        /\ Len(MessagesOf(c, k)) = 2

\* the message an invocation's failure carries
Thrown(inv) == IF inv.genOutcome = "throw" THEN GenError ELSE TtsError

Failed(inv) ==
    inv.pc = "done" /\ (inv.genOutcome = "throw" \/ inv.ttsOutcome = "throw")

C6_NoSendUnlessOpen ==
    \A c \in Conns :
        /\ \A i \in DOMAIN out[c] : out[c][i].state = "OPEN"
        /\ \A k \in DOMAIN invs[c] :
              (invs[c][k].pc = "done" /\ invs[c][k].endState # "OPEN")
              => MessagesOf(c, k) = <<>>

\* C6 witness: an invocation ran generation and synthesis to success, ended
\* on a CLOSED transport and sent nothing.
C6_Witness ==
    \E c \in Conns : \E k \in DOMAIN invs[c] :
        /\ invs[c][k].pc = "done" /\ invs[c][k].ttsOutcome = "ok"
        /\ invs[c][k].genCalls = 1 /\ invs[c][k].ttsCalls = 1
        /\ invs[c][k].endState = "CLOSED"
        /\ MessagesOf(c, k) = <<>>

\* C7: end() is called at most once on each stream, and a 'close' or 'error'
\* handler that runs while the reference is null touches no stream.
C7_TeardownIdempotent ==
    /\ [](\A c \in Conns : \A i \in DOMAIN streams[c] : streams[c][i].ends <= 1)
    /\ [][\A c \in Conns :
            (Len(teardowns'[c]) > Len(teardowns[c]) /\ recognizeStream[c] = Null)
            => /\ streams'[c] = streams[c]
               /\ writes'[c] = writes[c]
               /\ recognizeStream'[c] = Null
       ]_vars

\* C7 witness: two teardown handlers have run on a connection whose stream
\* had end() called.
C7_Witness ==
    \E c \in Conns :
        /\ Len(teardowns[c]) >= 2
        /\ \E i \in DOMAIN streams[c] : streams[c][i].ends = 1

\* C8: once a 'close' or 'error' handler has run on a connection, a frame
\* delivered to it opens no stream and is written to no stream.
C8_FrameAfterTeardownIsNoOp ==
    [][\A c \in Conns :
            (teardowns[c] # <<>> /\ Len(received'[c]) > Len(received[c]))
            => /\ Len(streams'[c]) = Len(streams[c])
               /\ writes'[c] = writes[c]
      ]_vars

\* a result that is final and has a non-empty transcript
Qualifies(r) == r.isFinal /\ r.transcript # Undefined /\ Len(r.transcript) > 0

\* C9: the invocations of a connection are, in order, exactly the
\* transcripts of its results that are final and non-empty: one invocation
\* for each, none for any other result.
C9_OneInvocationPerFinalResult ==
    \A c \in Conns :
        [k \in DOMAIN invs[c] |-> invs[c][k].text]
            = [i \in DOMAIN SelectSeq(results[c], Qualifies) |->
                    SelectSeq(results[c], Qualifies)[i].transcript]

\* C9 witness: a non-final result with a transcript and a final one have
\* been delivered, and one invocation exists.
C9_Witness ==
    \E c \in Conns :
        /\ Len(results[c]) = 2
        /\ ~results[c][1].isFinal /\ results[c][1].transcript = << "h", "i" >>
        /\ Qualifies(results[c][2])
        /\ Len(invs[c]) = 1

\* C10: an invocation whose text is empty or only spaces made no generation
\* call and no synthesis call and sent no message.
C10_EmptyTextDoesNothing ==
    \A c \in Conns : \A k \in DOMAIN invs[c] :
        ~NonBlank(invs[c][k].text)
        => /\ invs[c][k].genCalls = 0 /\ invs[c][k].ttsCalls = 0
           /\ invs[c][k].pc = "done"
           /\ MessagesOf(c, k) = <<>>

\* C10 witness: an invocation with a whitespace-only transcript exists.
C10_Witness ==
    \E c \in Conns : \E k \in DOMAIN invs[c] :
        invs[c][k].text = << " " >> /\ invs[c][k].pc = "done"

\* C11: an invocation whose generated reply is empty after trimming made no
\* synthesis call and sent no message of any type.
C11_EmptyReplySkipsSynthesis ==
    \A c \in Conns : \A k \in DOMAIN invs[c] :
        (invs[c][k].genOutcome = "ok" /\ ~NonBlank(invs[c][k].fullText))
        => /\ invs[c][k].ttsCalls = 0
           /\ invs[c][k].pc = "done"
           /\ MessagesOf(c, k) = <<>>

\* C11 witness: generation returned a whitespace-only reply on an OPEN
\* transport and the invocation is over.
C11_Witness ==
    \E c \in Conns : \E k \in DOMAIN invs[c] :
        /\ invs[c][k].genOutcome = "ok" /\ invs[c][k].fullText = << " " >>
        /\ invs[c][k].endState = "OPEN"

\* an event of connection c happened in this step
EventOf(c) ==
    \/ c \in sessions' \ sessions
    \/ received'[c] # received[c]
    \/ results'[c] # results[c]
    \/ teardowns'[c] # teardowns[c]
    \/ streams'[c] # streams[c]
    \/ invs'[c] # invs[c]

\* C12: an event of one connection (frame, stream data/error/end, pipeline
\* step, transport close/error) leaves every other connection's stream
\* reference, frame buffer and outbound messages unchanged.
C12_SessionsIsolated ==
    [][\A c, d \in Conns :
            (c # d /\ EventOf(c))
            => /\ recognizeStream'[d] = recognizeStream[d]
               /\ audioInput'[d] = audioInput[d]
               /\ out'[d] = out[d]
               /\ streams'[d] = streams[d]
      ]_vars

\* C12 witness: one connection was torn down after a transport error while
\* the other still holds its open, un-ended stream.
C12_Witness ==
    \E c, d \in Conns :
        /\ c # d
        /\ teardowns[c] # <<>> /\ recognizeStream[c] = Null
        /\ streams[c] # <<>> /\ streams[c][1].ends = 1
        /\ recognizeStream[d] = 1 /\ streams[d][1].ends = 0

\* C13: when a stream is opened while N chunks are in audioInput, the N
\* chunks are written to the new stream in the order they were appended, each
\* once, before the frame that caused the opening, and audioInput is empty
\* afterwards.
C13_DrainInOrder ==
    [][\A c \in Conns :
            Len(streams'[c]) = Len(streams[c]) + 1
            => LET n == Len(audioInput[c])
                   base == Len(writes[c])
                   new == Len(streams'[c])
               IN  /\ Len(writes'[c]) = base + n + 1
                   /\ SubSeq(writes'[c], 1, base) = writes[c]
                   /\ \A i \in 1..n :
                         /\ writes'[c][base + i].chunk = audioInput[c][i]
                         /\ writes'[c][base + i].stream = new
                   /\ writes'[c][base + n + 1].chunk
                         = received'[c][Len(received'[c])].chunk
                   /\ writes'[c][base + n + 1].stream = new
                   /\ audioInput'[c] = <<>>
      ]_vars

\* C13 witness: two buffered chunks were drained into the stream the first
\* frame opened, ahead of that frame.
C13_Witness ==
    \E c \in Conns :
        /\ Len(received[c]) = 1
        /\ Len(writes[c]) = 3
        /\ writes[c][1].chunk = "x" /\ writes[c][2].chunk = "y"
        /\ writes[c][3].chunk = 1
        /\ audioInput[c] = <<>>

\* C14: once the 'close' event has been handled, every stream the session
\* opened has had end() called on it or has emitted 'end'.
C14_TeardownEndsEveryStream ==
    \A c \in Conns :
        readyState[c] = "CLOSED"
        => \A i \in DOMAIN streams[c] :
              streams[c][i].ends >= 1 \/ streams[c][i].st = "ended"

\* C15: invocations of one connection are not serialized. A final non-blank
\* transcript starts a new invocation (its generation call is made) also while
\* earlier invocations are still in flight, and an invocation whose synthesis
\* completes on an OPEN transport puts its two messages at the end of the
\* messages sent so far: the wire order is the completion order.
C15_RepliesInCompletionOrder ==
    [][\A c \in Conns :
            /\ ( /\ Len(results'[c]) = Len(results[c]) + 1
                 /\ Qualifies(results'[c][Len(results'[c])])
                 /\ NonBlank(results'[c][Len(results'[c])].transcript)
                 /\ \E k \in DOMAIN invs[c] : invs[c][k].pc # "done" )
               => /\ Len(invs'[c]) = Len(invs[c]) + 1
                  /\ invs'[c][Len(invs'[c])].pc = "gen"
                  /\ \A k \in DOMAIN invs[c] : invs'[c][k] = invs[c][k]
            /\ \A k \in DOMAIN invs[c] :
                  ( /\ invs[c][k].pc = "tts" /\ invs'[c][k].pc = "done"
                    /\ invs'[c][k].ttsOutcome = "ok"
                    /\ readyState[c] = "OPEN" )
                  => /\ Len(out'[c]) = Len(out[c]) + 2
                     /\ SubSeq(out'[c], 1, Len(out[c])) = out[c]
                     /\ out'[c][Len(out[c]) + 1].inv = k
                     /\ out'[c][Len(out[c]) + 1].type = "audio"
                     /\ out'[c][Len(out[c]) + 2].inv = k
      ]_vars

\* C15 witness: the reply to the second transcript is on the wire before the
\* reply to the first.
C15_Witness ==
    \E c \in Conns : \E i, j \in DOMAIN out[c] :
        /\ i < j
        /\ out[c][i].type = "audio" /\ out[c][i].inv = 2
        /\ out[c][j].type = "audio" /\ out[c][j].inv = 1

\* C16: an invocation makes at most one generation call and at most one
\* synthesis call, also when a call fails; a finished invocation never runs
\* again; a pipeline step leaves the stream reference and the streams as they
\* are; and a final transcript after a failed invocation starts a new one.
C16_NoRetries ==
    /\ [](\A c \in Conns : \A k \in DOMAIN invs[c] :
            invs[c][k].genCalls <= 1 /\ invs[c][k].ttsCalls <= 1)
    /\ [][\A c \in Conns :
            /\ \A k \in DOMAIN invs[c] :
                  /\ invs[c][k].pc = "done" => invs'[c][k] = invs[c][k]
                  /\ invs'[c][k] # invs[c][k]
                       => /\ recognizeStream'[c] = recognizeStream[c]
                          /\ streams'[c] = streams[c]
            /\ ( /\ Len(results'[c]) = Len(results[c]) + 1
                 /\ Qualifies(results'[c][Len(results'[c])])
                 /\ \E k \in DOMAIN invs[c] : Failed(invs[c][k]) )
               => Len(invs'[c]) = Len(invs[c]) + 1
       ]_vars

\* C16 witness: the first invocation failed after one generation call and a
\* second invocation has been started by the next final transcript.
C16_Witness ==
    \E c \in Conns :
        /\ Len(invs[c]) = 2
        /\ invs[c][1].genOutcome = "throw" /\ invs[c][1].genCalls = 1
        /\ invs[c][1].pc = "done"
        /\ invs[c][2].pc = "gen"

\* C17: a stream is opened only in the handling of a binary frame that finds
\* no current stream; establishing the connection opens no stream and writes
\* nothing, and neither does a text frame.
C17_LazyStart ==
    [][\A c \in Conns :
            /\ Len(streams'[c]) > Len(streams[c])
               => /\ Len(received'[c]) = Len(received[c]) + 1
                  /\ received'[c][Len(received'[c])].binary
                  /\ recognizeStream[c] = Null
            /\ c \in sessions' \ sessions
               => streams'[c] = streams[c] /\ writes'[c] = writes[c]
            /\ ( /\ Len(received'[c]) = Len(received[c]) + 1
                 /\ ~received'[c][Len(received'[c])].binary )
               => streams'[c] = streams[c] /\ writes'[c] = writes[c]
      ]_vars

\* a stream that was opened, has not had end() called and has not emitted 'end'
Live(c, i) == streams[c][i].ends = 0 /\ streams[c][i].st # "ended"

\* C18: a connection has at most one live stream, its stream reference is
\* null or that live stream, and the 'end' of another stream (one that
\* teardown already ended) leaves the reference to the live stream in place.
C18_AtMostOneLiveStream ==
    /\ [](\A c \in Conns :
            /\ Cardinality({i \in DOMAIN streams[c] : Live(c, i)}) <= 1
            /\ recognizeStream[c] # Null => Live(c, recognizeStream[c]))
    /\ [][\A c \in Conns : \A i \in DOMAIN streams[c] :
            ( /\ recognizeStream[c] # Null /\ recognizeStream[c] # i
              /\ Live(c, recognizeStream[c])
              /\ streams[c][i].st # "ended" /\ streams'[c][i].st = "ended" )
            => recognizeStream'[c] = recognizeStream[c]
       ]_vars

\* C19: in the messages sent on a connection every 'audio' is immediately
\* followed by the 'audio_complete' of the same invocation, and every
\* 'audio_complete' immediately follows the 'audio' of its invocation.
C19_MarkerFollowsPayload ==
    \A c \in Conns : \A i \in DOMAIN out[c] :
        /\ out[c][i].type = "audio"
           => /\ i + 1 \in DOMAIN out[c]
              /\ out[c][i + 1].type = "audio_complete"
              /\ out[c][i + 1].inv = out[c][i].inv
        /\ out[c][i].type = "audio_complete"
           => /\ i - 1 \in DOMAIN out[c]
              /\ out[c][i - 1].type = "audio"
              /\ out[c][i - 1].inv = out[c][i].inv

\* C19 witness: two invocations that were in flight together have both sent
\* their pair of messages.
C19_Witness ==
    \E c \in Conns :
        /\ Len(out[c]) = 4
        /\ out[c][1].type = "audio" /\ out[c][3].type = "audio"
        /\ out[c][1].inv # out[c][3].inv

\* C20: audioInput is empty between handlers, and a frame is written, once,
\* to the stream that is current when the handler returns.
C20_BufferAlwaysEmpty ==
    /\ [](\A c \in Conns : audioInput[c] = <<>>)
    /\ [][\A c \in Conns :
            Len(received'[c]) = Len(received[c]) + 1
            => /\ recognizeStream'[c] # Null
               /\ Len(writes'[c]) = Len(writes[c]) + 1
               /\ writes'[c][Len(writes'[c])].stream = recognizeStream'[c]
               /\ writes'[c][Len(writes'[c])].chunk
                     = received'[c][Len(received'[c])].chunk
       ]_vars

\* C20 witness: a frame found no stream after the previous one had ended,
\* and was written to the second stream with the buffer left empty.
C20_Witness ==
    \E c \in Conns :
        /\ Len(streams[c]) = 2
        /\ Len(writes[c]) = 2 /\ writes[c][2].stream = 2
        /\ audioInput[c] = <<>>

====
